---------------------------- MODULE Spec2Model ----------------------------
(***************************************************************************)
(* Model of src/main.rs: a Bevy application with a Load/Play state, a      *)
(* repeating fire Trigger, the DelayedDespawn component with its sweep     *)
(* despawn_delayed, and the collision handler collide.                     *)
(*                                                                         *)
(* One frame of the engine's main schedule is First, StateTransition,      *)
(* Update, the sync point that applies the Commands of Update, SpawnScene  *)
(* and PostUpdate.  The systems of Update (despawn_delayed, fire, collide) *)
(* have no ordering between them, so they run in any order.  The model     *)
(* takes one step for StateTransition, one for each system of Update, one  *)
(* for the sync point, one for SpawnScene, and one for PostUpdate (the     *)
(* physics step) together with First of the next frame.                    *)
(*                                                                         *)
(* Time is counted in whole units of one second (timers hold integer       *)
(* durations).  Vectors have rational coordinates; rotations are the       *)
(* quarter turns about Z, which are exact on rationals.  The frame delta,  *)
(* the asset loading, the scene spawner and the physics step are inputs.   *)
(***************************************************************************)
EXTENDS Integers, Sequences, FiniteSets, TLC

(* ------------------------- program constants -------------------------- *)
\* Timer::from_seconds(4.0, TimerMode::Repeating)
TriggerInterval == 4
\* DelayedDespawn::after(8.0)
AmmoLifetime == 8
\* DelayedDespawn::after(1.0)
MarkerLifetime == 1

(* ------------------------------ bounds -------------------------------- *)
\* entities alive at once (the ids of the world)
MaxEntities == 11
\* collision events written by one physics step
MaxEvents == 1
\* events of the batch, contacts of a manifold and manifolds of an event
\* that InitCollide draws
MaxBatch == 2
MaxContacts == 2
MaxManifolds == 2
\* largest coordinate of the vectors rotation_between is called on
MaxCoord == 1
\* the entity ids of the world of the frames without collisions
MaxSlots == 15

(* ------------------------ rationals and Vec3 -------------------------- *)
Abs(n) == IF n < 0 THEN -n ELSE n

RECURSIVE Gcd(_, _)
Gcd(a, b) == IF b = 0 THEN a ELSE Gcd(b, a % b)

\* a rational <<n, d>> in lowest terms, d > 0
Rat(n, d) ==
    LET g == Gcd(Abs(n), d)
    IN  IF n = 0 THEN <<0, 1>> ELSE <<n \div g, d \div g>>

RAdd(a, b) == Rat(a[1] * b[2] + b[1] * a[2], a[2] * b[2])
RNeg(a) == <<-a[1], a[2]>>

\* a Vec3; nan marks a vector whose coordinates are NaN
V(x, y, z) == [nan |-> FALSE, x |-> <<x, 1>>, y |-> <<y, 1>>, z |-> <<z, 1>>]
VecZERO == V(0, 0, 0)
VecNaN == [nan |-> TRUE, x |-> <<0, 1>>, y |-> <<0, 1>>, z |-> <<0, 1>>]

\* Vec3 + Vec3
VAdd(a, b) ==
    IF a.nan \/ b.nan THEN VecNaN
    ELSE [nan |-> FALSE, x |-> RAdd(a.x, b.x), y |-> RAdd(a.y, b.y),
          z |-> RAdd(a.z, b.z)]

\* Vec3 / f32 for a count cast to f32.  The only division by zero the
\* program can make divides the sum of an empty list, 0.0 / 0.0 = NaN.
VDiv(a, n) ==
    IF a.nan \/ n = 0 THEN VecNaN
    ELSE [nan |-> FALSE, x |-> Rat(a.x[1], a.x[2] * n),
          y |-> Rat(a.y[1], a.y[2] * n), z |-> Rat(a.z[1], a.z[2] * n)]

\* Quat * Vec3 for the quarter turns about Z: "id", "z90", "z180", "z270"
Rotate(q, v) ==
    IF v.nan THEN VecNaN
    ELSE CASE q = "id"   -> v
           [] q = "z90"  -> [v EXCEPT !.x = RNeg(v.y), !.y = v.x]
           [] q = "z180" -> [v EXCEPT !.x = RNeg(v.x), !.y = RNeg(v.y)]
           [] q = "z270" -> [v EXCEPT !.x = v.y, !.y = RNeg(v.x)]

(* ------------------------------ Timer --------------------------------- *)
\* Timer::from_seconds(seconds, mode)
TimerFromSeconds(seconds, mode) ==
    [mode |-> mode, duration |-> seconds, elapsed |-> 0, finished |-> FALSE]

NoTimer == [mode |-> "None", duration |-> 0, elapsed |-> 0, finished |-> FALSE]

\* buggy variant: a finished repeating timer restarts from zero
TimerTickResetsToZero(t, delta) ==
    IF t.mode = "Once" /\ t.finished THEN t
    ELSE LET e == t.elapsed + delta
         IN  IF e >= t.duration
             THEN [t EXCEPT !.finished = TRUE,
                            !.elapsed = IF t.mode = "Repeating" THEN 0
                                        ELSE t.duration]
             ELSE [t EXCEPT !.finished = FALSE, !.elapsed = e]

\* Timer::tick(delta): a finished once-timer stays as it is; otherwise the
\* elapsed time grows by delta, the timer is finished when it has reached
\* the duration, and then a repeating timer keeps the remainder modulo the
\* duration while a once-timer is clamped to the duration.
TimerTick(t, delta) ==
    IF t.mode = "Once" /\ t.finished THEN t
    ELSE LET e == t.elapsed + delta
         IN  IF e >= t.duration
             THEN [t EXCEPT !.finished = TRUE,
                            !.elapsed = IF t.mode = "Repeating"
                                        THEN e % t.duration
                                        ELSE t.duration]
             ELSE [t EXCEPT !.finished = FALSE, !.elapsed = e]

\* DelayedDespawn::after(seconds)
After(seconds) == TimerFromSeconds(seconds, "Once")


(* ----------------------------- entities ------------------------------- *)
\* Transform / GlobalTransform: translation, rotation, uniform scale
Xf(t, r, s) == [translation |-> t, rotation |-> r, scale |-> s]
XfIdentity == Xf(VecZERO, "id", 1)

\* GlobalTransform::compute_transform(): the affine transform taken apart
\* into scale, rotation and translation
ComputeTransform(gt) ==
    [translation |-> gt.translation, rotation |-> gt.rotation,
     scale |-> gt.scale]

\* One entity with the components the systems read.  kind names the
\* bundle it was spawned from ("rock", "ammo", "marker") or, for a scene
\* child, its Name ("ball", "collider") or "mesh"; parent and children are
\* its Parent and Children; scene is the state of its Handle<Scene>; dd is
\* the timer of its DelayedDespawn (NoTimer when it has none); collider
\* and colliderParent are the physics components the query of collide asks
\* for.  ticked and removals are history: the sum of the deltas ticked
\* into dd, and the despawn commands issued for the entity.
Entity(kind, parent, scene, dd, gt, velocity) ==
    [alive |-> TRUE, kind |-> kind, parent |-> parent, children |-> <<>>,
     scene |-> scene, dd |-> dd, ticked |-> 0, collider |-> FALSE,
     colliderParent |-> FALSE, layer |-> "None", gt |-> gt,
     velocity |-> velocity, removals |-> 0]

\* an entity id that names no entity: a free slot of the world
FreeSlot ==
    [Entity("none", 0, "none", NoTimer, XfIdentity, VecZERO)
        EXCEPT !.alive = FALSE]

\* an Entity whose entity has been despawned (it resolves in no query)
Gone == 0

\* setup_scene: the rock, scale 4 at (15, 15, 0)
RockBundle ==
    Entity("rock", 0, "pending", NoTimer, Xf(V(15, 15, 0), "id", 4), VecZERO)

\* buggy variant: the projectile lives for three trigger intervals
AmmoBundleLongLived ==
    Entity("ammo", 0, "pending", After(AmmoLifetime + TriggerInterval),
           Xf(VecZERO, "rotation_between(Y, velocity)", 2), V(10, 10, 0))

\* fire: velocity (10, 10, 0), scale 2, rotation rotation_between(Y,
\* velocity), DelayedDespawn::after(8.0)
AmmoVelocity == V(10, 10, 0)
AmmoBundle ==
    Entity("ammo", 0, "pending", After(AmmoLifetime),
           Xf(VecZERO, "rotation_between(Y, velocity)", 2), AmmoVelocity)

\* buggy variant: the marker is spawned without a DelayedDespawn
MarkerBundleNoDespawn(p) ==
    Entity("marker", 0, "none", NoTimer, Xf(p, "id", 3), VecZERO)

\* collide: a marker at p, scale 3, DelayedDespawn::after(1.0)
MarkerBundle(p) ==
    Entity("marker", 0, "none", After(MarkerLifetime), Xf(p, "id", 3), VecZERO)

\* the scene hooks: the child named "ball" of the rock becomes a collider
\* of Layer::Object, the child named "collider" of the ammo one of
\* Layer::Ammo
HookName(rootKind) == IF rootKind = "rock" THEN "ball" ELSE "collider"
HookLayer(name) ==
    CASE name = "ball" -> "Object" [] name = "collider" -> "Ammo"
      [] OTHER -> "None"

\* the GlobalTransform of the rock's collider, and poses of the collider
\* of a moving projectile
RockGT == Xf(V(15, 15, 0), "id", 4)
AmmoTransforms ==
    {Xf(V(10, 0, 0), "id", 2), Xf(V(0, 5, 0), "z90", 2),
     Xf(V(-3, 0, 1), "z180", 2), Xf(V(2, -7, 0), "z270", 2)}
\* positions are not followed along a flight: in a running frame a
\* projectile's collider is seen at this pose
AmmoSeenAt == Xf(V(10, 0, 0), "id", 2)

(* ------------------------------ commands ------------------------------ *)
\* commands.spawn(bundle); ev is the event a marker answers (0: none)
SpawnCmd(bundle, ev) ==
    [op |-> "spawn", entity |-> 0, bundle |-> bundle, ev |-> ev]
\* commands.entity(entity).despawn_recursive()
DespawnRecursiveCmd(entity) ==
    [op |-> "despawn_recursive", entity |-> entity, bundle |-> FreeSlot,
     ev |-> 0]

Range(f) == {f[i] : i \in DOMAIN f}
AliveIds(ents) == {i \in DOMAIN ents : ents[i].alive}
FreeIds(ents) == {i \in DOMAIN ents : ~ents[i].alive}
Min(S) == CHOOSE x \in S : \A y \in S : x <= y
Max(S) == CHOOSE x \in S : \A y \in S : x >= y

RECURSIVE Subtree(_, _)
\* the entity and everything below it, along Children
Subtree(ents, a) ==
    {a} \cup UNION {Subtree(ents, c) : c \in Range(ents[a].children)}

\* buggy variant: despawn() of the entity alone
DespawnOnly(ents, a) ==
    [i \in DOMAIN ents |-> IF i = a THEN FreeSlot ELSE ents[i]]

\* despawn_recursive: the entity and all its descendants, in one command
DespawnRecursive(ents, a) ==
    [i \in DOMAIN ents |-> IF i \in Subtree(ents, a) THEN FreeSlot ELSE ents[i]]

\* The id of a spawned entity.  Which free id the allocator hands out is
\* immaterial to the systems: the short-lived markers take the highest
\* free id and everything else the lowest.
ReserveId(free, bundle) ==
    IF bundle.kind = "marker" THEN Max(free) ELSE Min(free)

\* one queued command applied to the world
ApplyCommand(ents, c) ==
    IF c.op = "spawn"
    THEN [ents EXCEPT ![ReserveId(FreeIds(ents), c.bundle)] = c.bundle]
    ELSE IF ents[c.entity].alive THEN DespawnRecursive(ents, c.entity)
    ELSE ents

RECURSIVE ApplyCommands(_, _)
\* a command queue applied in the order it was filled
ApplyCommands(ents, q) ==
    IF q = <<>> THEN ents
    ELSE ApplyCommands(ApplyCommand(ents, Head(q)), Tail(q))

(* ------------------------------ collide ------------------------------- *)
RECURSIVE ContactFold(_, _)
\* manifold.contacts.iter().fold((ZERO, ZERO), |a, v| (a.0 + v.point1,
\* a.1 + v.point2))
ContactFold(contacts, a) ==
    IF contacts = <<>> THEN a
    ELSE ContactFold(Tail(contacts),
                     <<VAdd(a[1], Head(contacts).point1),
                       VAdd(a[2], Head(contacts).point2)>>)

RECURSIVE ManifoldFold(_, _)
\* contacts.manifolds.iter().fold((ZERO, ZERO), |acc, manifold| ...): each
\* manifold adds the mean of its contact points
ManifoldFold(manifolds, acc) ==
    IF manifolds = <<>> THEN acc
    ELSE LET manifold == Head(manifolds)
             sum == ContactFold(manifold.contacts, <<VecZERO, VecZERO>>)
             count == Len(manifold.contacts)
             point1 == VDiv(sum[1], count)
             point2 == VDiv(sum[2], count)
         IN  ManifoldFold(Tail(manifolds),
                          <<VAdd(acc[1], point1), VAdd(acc[2], point2)>>)

RECURSIVE AllContacts(_)
\* (for the buggy variant below) the contacts of all manifolds in one list
AllContacts(manifolds) ==
    IF manifolds = <<>> THEN <<>>
    ELSE Head(manifolds).contacts \o AllContacts(Tail(manifolds))

\* buggy variant: the mean over all contacts, weighted by contact count
ImpactPointsWeighted(contacts, transform1, transform2) ==
    LET all == AllContacts(contacts.manifolds)
        sum == ContactFold(all, <<VecZERO, VecZERO>>)
        count == Len(all)
        t1 == ComputeTransform(transform1)
        t2 == ComputeTransform(transform2)
    IN  <<VAdd(t1.translation, Rotate(t1.rotation, VDiv(sum[1], count))),
          VAdd(t2.translation, Rotate(t2.rotation, VDiv(sum[2], count)))>>

\* the two world points of one event: translation + rotation * mean
ImpactPoints(contacts, transform1, transform2) ==
    LET sum == ManifoldFold(contacts.manifolds, <<VecZERO, VecZERO>>)
        count == Len(contacts.manifolds)
        t1 == ComputeTransform(transform1)
        t2 == ComputeTransform(transform2)
    IN  <<VAdd(t1.translation, Rotate(t1.rotation, VDiv(sum[1], count))),
          VAdd(t2.translation, Rotate(t2.rotation, VDiv(sum[2], count)))>>

\* Query<(&ColliderParent, &GlobalTransform, &Collider)>::get(entity)
QueryMatches(ents, id) ==
    /\ id \in DOMAIN ents
    /\ ents[id].alive
    /\ ents[id].collider
    /\ ents[id].colliderParent

\* entities.get_many([entity1, entity2]) is Ok
GetMany(ents, contacts) ==
    QueryMatches(ents, contacts.entity1) /\ QueryMatches(ents, contacts.entity2)

\* buggy variant: a marker for the first body only
MarkersOne(ents, contacts, ev) ==
    LET p == ImpactPoints(contacts, ents[contacts.entity1].gt,
                          ents[contacts.entity2].gt)
    IN  <<SpawnCmd(MarkerBundle(p[1]), ev)>>

\* the two markers of one event
Markers(ents, contacts, ev) ==
    LET p == ImpactPoints(contacts, ents[contacts.entity1].gt,
                          ents[contacts.entity2].gt)
    IN  <<SpawnCmd(MarkerBundle(p[1]), ev), SpawnCmd(MarkerBundle(p[2]), ev)>>

\* buggy variant: the during_previous_frame test left out
CollideEventNoSkip(ents, contacts, ev) ==
    IF ~GetMany(ents, contacts) THEN <<>> ELSE Markers(ents, contacts, ev)

\* the body of the loop of collide for one event: the commands it queues
CollideEvent(ents, contacts, ev) ==
    IF contacts.during_previous_frame THEN <<>>
    ELSE IF ~GetMany(ents, contacts) THEN <<>>
    ELSE Markers(ents, contacts, ev)

RECURSIVE CollideLoopStops(_, _, _)
\* buggy variant: return instead of continue when get_many fails
CollideLoopStops(ents, evs, from) ==
    IF from >= Len(evs) THEN <<>>
    ELSE IF /\ ~evs[from + 1].during_previous_frame
            /\ ~GetMany(ents, evs[from + 1])
         THEN <<>>
         ELSE CollideEvent(ents, evs[from + 1], from + 1)
              \o CollideLoopStops(ents, evs, from + 1)

RECURSIVE CollideLoop(_, _, _)
\* for Collision(contacts) in collision_event_reader.read(): the events
\* from position from + 1 on, in order
CollideLoop(ents, evs, from) ==
    IF from >= Len(evs) THEN <<>>
    ELSE CollideEvent(ents, evs[from + 1], from + 1)
         \o CollideLoop(ents, evs, from + 1)

(* -------------------------- rotation_between ------------------------- *)
\* const EPSILON: f32 = 0.001
EPSILON == <<1, 1000>>

RAbs(a) == <<Abs(a[1]), a[2]>>
Lcm(a, b) == (a \div Gcd(a, b)) * b
RLess(a, b) == a[1] * b[2] < b[1] * a[2]

\* buggy variant: only the exact zero vector counts as zero
AlmostZeroExact(v) == v.x[1] = 0 /\ v.y[1] = 0 /\ v.z[1] = 0

\* ZeroCheck::almost_zero: every one of the three components is below
\* EPSILON in magnitude
AlmostZero(v) ==
    /\ RLess(RAbs(v.x), EPSILON)
    /\ RLess(RAbs(v.y), EPSILON)
    /\ RLess(RAbs(v.z), EPSILON)

\* A unit vector is kept as the integer vector of its direction with no
\* common factor (its coordinates are not rational in general).
\* Vec3::normalize: the zero vector has no direction, and 0 * (1 / 0) is NaN
Normalize(v) ==
    IF v.nan \/ (v.x[1] = 0 /\ v.y[1] = 0 /\ v.z[1] = 0) THEN VecNaN
    ELSE LET l == Lcm(v.x[2], Lcm(v.y[2], v.z[2]))
             x == v.x[1] * (l \div v.x[2])
             y == v.y[1] * (l \div v.y[2])
             z == v.z[1] * (l \div v.z[2])
             g == Gcd(Abs(x), Gcd(Abs(y), Abs(z)))
         IN  V(x \div g, y \div g, z \div g)

\* a . b of integer vectors
IntDot(a, b) == a.x[1] * b.x[1] + a.y[1] * b.y[1] + a.z[1] * b.z[1]

\* Vec3::dot of two unit vectors, kept as its sign and its square
UnitDot(a, b) ==
    LET d == IntDot(a, b)
    IN  [sign |-> IF d > 0 THEN 1 ELSE IF d < 0 THEN -1 ELSE 0,
         sq |-> Rat(d * d, IntDot(a, a) * IntDot(b, b))]

\* the cosines 1.0 and -1.0 (angles 0 and PI)
CosOne == [sign |-> 1, sq |-> <<1, 1>>]
CosMinusOne == [sign |-> -1, sq |-> <<1, 1>>]

\* Vec3::cross; of two unit vectors it is a multiple of the cross of their
\* directions
Cross(a, b) ==
    IF a.nan \/ b.nan THEN VecNaN
    ELSE V(a.y[1] * b.z[1] - a.z[1] * b.y[1],
           a.z[1] * b.x[1] - a.x[1] * b.z[1],
           a.x[1] * b.y[1] - a.y[1] * b.x[1])

\* Quat::IDENTITY, and Quat::from_axis_angle(axis, angle) with the angle
\* given by its cosine; a NaN axis makes every component NaN
QuatIDENTITY == [nan |-> FALSE, axis |-> VecZERO, cos |-> CosOne]
QuatFromAxisAngle(axis, cos) == [nan |-> axis.nan, axis |-> axis, cos |-> cos]

\* rotation_between(from, to)
RotationBetween(from, to) ==
    IF AlmostZero(from) \/ AlmostZero(to) THEN QuatIDENTITY
    ELSE LET normalized_a == Normalize(from)
             normalized_b == Normalize(to)
             dot_product == UnitDot(normalized_a, normalized_b)
         IN  IF dot_product.sign = 1 /\ ~RLess(dot_product.sq, <<1, 1>>)
             THEN QuatIDENTITY
             ELSE IF dot_product.sign = -1 /\ ~RLess(dot_product.sq, <<1, 1>>)
             THEN QuatFromAxisAngle(
                      Normalize(Cross(V(1, 0, 0), normalized_a)), CosMinusOne)
             ELSE QuatFromAxisAngle(
                      Normalize(Cross(normalized_a, normalized_b)), dot_product)

\* Quat * Vec3 for a rotation by PI about axis: 2 (u . v) u - v for the
\* unit vector u of the axis
HalfTurn(axis, v) ==
    IF axis.nan \/ v.nan THEN VecNaN
    ELSE LET n == IntDot(axis, axis)
             k == [c \in {"x", "y", "z"} |-> Rat(2 * axis[c][1], n)]
             \* u . v times 2 / n, coordinate by coordinate of v
             uv == RAdd(RAdd(Rat(axis.x[1] * v.x[1], v.x[2]),
                             Rat(axis.y[1] * v.y[1], v.y[2])),
                        Rat(axis.z[1] * v.z[1], v.z[2]))
             co(c) == RAdd(Rat(uv[1] * k[c][1], uv[2] * k[c][2]), RNeg(v[c]))
         IN  [nan |-> FALSE, x |-> co("x"), y |-> co("y"), z |-> co("z")]

\* the vectors rotation_between is called on: integer coordinates up to
\* MaxCoord, as they are, and scaled to 0.001 (at EPSILON) and to 0.0005
\* (below it)
RotationVectors ==
    {[nan |-> FALSE, x |-> Rat(x, s), y |-> Rat(y, s), z |-> Rat(z, s)] :
        x \in -MaxCoord..MaxCoord, y \in -MaxCoord..MaxCoord,
        z \in -MaxCoord..MaxCoord, s \in {1, 1000, 2000}}

\* a call of rotation_between: its arguments and, once it has returned,
\* its result
Call(from, to) ==
    [from |-> from, to |-> to, called |-> FALSE, result |-> QuatIDENTITY]
NoCall == Call(VecZERO, VecZERO)

(* ------------------------------- state -------------------------------- *)
VARIABLES
    state,       \* State: "Load" or "Play"
    trigger,     \* the Trigger resource (NoTimer until it is inserted)
    delta,       \* time.delta() of the current frame
    pc,          \* the schedule the frame is at
    ran,         \* the systems of Update that have run in this frame
    cmds,        \* the Commands queue of each system of Update
    entities,    \* the world: entity id -> Entity
    events,      \* Events<Collision>: the events a reader can be handed
    reader,      \* how many of them collide's EventReader has read
    gone,        \* a projectile's collider has been despawned
    panicked,    \* the application has aborted
    start,       \* history: the world and the trigger when Update began
    rot          \* a call of rotation_between under study

vars == <<state, trigger, delta, pc, ran, cmds, entities, events, reader,
          gone, panicked, start, rot>>

NoStart == [entities |-> <<>>, trigger |-> NoTimer]

NoCommands == [despawn_delayed |-> <<>>, fire |-> <<>>, collide |-> <<>>]

HasDelayedDespawn(e) == e.alive /\ e.dd.mode # "None"

\* The first frame, after its First schedule: #[default] Load, no Trigger,
\* no entity with any of the modelled components (Startup has spawned the
\* camera and the light), and a time.delta() of zero
Init ==
    /\ state = "Load"
    /\ trigger = NoTimer
    /\ delta = 0
    /\ pc = "StateTransition"
    /\ ran = {}
    /\ cmds = NoCommands
    /\ entities = [i \in 1..MaxEntities |-> FreeSlot]
    /\ events = <<>>
    /\ reader = 0
    /\ gone = FALSE
    /\ panicked = FALSE
    /\ start = NoStart
    /\ rot = NoCall

(* ------------------------------ schedule ------------------------------ *)
\* buggy variant: fire and collide not gated by the state
RunIfAlways(st) == TRUE

\* .run_if(in_state(State::Play)) on (fire, collide)
InStatePlay(st) == st = "Play"

\* buggy variant: despawn_delayed gated by the state like fire and collide
UpdateSystemsAllGated(st) ==
    IF InStatePlay(st) THEN {"despawn_delayed", "fire", "collide"} ELSE {}

\* the systems of Update that run in a frame: despawn_delayed is added
\* without a run condition, fire and collide with in_state(State::Play)
UpdateSystems(st) ==
    {"despawn_delayed"} \cup
    (IF InStatePlay(st) THEN {"fire", "collide"} ELSE {})

PendingRoots ==
    {i \in AliveIds(entities) : entities[i].scene = "pending"}

\* buggy variant: the state machine cycles back to Load
NextStateCycles(st, loaded) ==
    IF st = "Load" THEN (IF loaded THEN "Play" ELSE "Load") ELSE "Load"

\* LoadingState::new(State::Load).continue_to_state(State::Play): the
\* state is left for Play once the collection is loaded, and only from Load
NextState(st, loaded) ==
    IF st = "Load" /\ loaded THEN "Play" ELSE st

\* buggy variant: setup_scene inserts no Trigger
SetupSceneNoTrigger == NoTimer

\* setup_scene: commands.insert_resource(Trigger(Timer::from_seconds(4.0,
\* TimerMode::Repeating)))
SetupSceneTrigger == TimerFromSeconds(TriggerInterval, "Repeating")

\* buggy variant: setup_scene run by every state transition step in Play
OnEnterPlayEveryFrame(old, new) == new = "Play"

\* OnEnter(State::Play): the schedule runs in the step that enters Play
OnEnterPlay(old, new) == old # "Play" /\ new = "Play"

\* StateTransition: the state changes when the loading state asks for it;
\* on entering Play, OnEnter(State::Play) runs setup_scene and applies its
\* commands, the Trigger resource and the rock
StateTransition(loaded) ==
    /\ pc = "StateTransition"
    /\ state' = NextState(state, loaded)
    /\ IF OnEnterPlay(state, state')
       THEN /\ trigger' = SetupSceneTrigger
            /\ entities' = ApplyCommands(entities, <<SpawnCmd(RockBundle, 0)>>)
       ELSE UNCHANGED <<trigger, entities>>
    /\ pc' = "Update"
    /\ start' = [entities |-> entities', trigger |-> trigger']
    /\ UNCHANGED <<delta, ran, cmds, events, reader, gone, panicked, rot>>

(* -------------------------- despawn_delayed --------------------------- *)
\* the loop body on the component: dd.timer.tick(time.delta())
TickDelayed(e, d) ==
    IF HasDelayedDespawn(e)
    THEN LET t == TimerTick(e.dd, d)
         IN  [e EXCEPT !.dd = t, !.ticked = @ + d,
                       !.removals = IF t.finished THEN @ + 1 ELSE @]
    ELSE e

RECURSIVE DespawnQueueUnfinished(_, _)
\* buggy variant: the finished() test left out
DespawnQueueUnfinished(ents, from) ==
    IF from >= Len(ents) THEN <<>>
    ELSE (IF HasDelayedDespawn(ents[from + 1])
          THEN <<DespawnRecursiveCmd(from + 1)>> ELSE <<>>)
         \o DespawnQueueUnfinished(ents, from + 1)

RECURSIVE DespawnQueue(_, _)
\* the commands of one sweep: despawn_recursive for every entity whose
\* ticked timer is finished, in query order (from is the last id seen)
DespawnQueue(ents, from) ==
    IF from >= Len(ents) THEN <<>>
    ELSE (IF HasDelayedDespawn(ents[from + 1]) /\ ents[from + 1].dd.finished
          THEN <<DespawnRecursiveCmd(from + 1)>> ELSE <<>>)
         \o DespawnQueue(ents, from + 1)

\* buggy variant: the despawns take effect inside the sweep, not at the
\* sync point
RunDespawnDelayedAtOnce ==
    /\ pc = "Update"
    /\ "despawn_delayed" \in UpdateSystems(state) \ ran
    /\ ~panicked
    /\ LET ticked == [i \in DOMAIN entities |->
                        TickDelayed(entities[i], delta)]
       IN  entities' = ApplyCommands(ticked, DespawnQueue(ticked, 0))
    /\ ran' = ran \cup {"despawn_delayed"}
    /\ UNCHANGED <<state, trigger, delta, pc, cmds, events, reader, gone,
                   panicked, start, rot>>

RunDespawnDelayed ==
    /\ pc = "Update"
    /\ "despawn_delayed" \in UpdateSystems(state) \ ran
    /\ ~panicked
    /\ entities' = [i \in DOMAIN entities |-> TickDelayed(entities[i], delta)]
    /\ cmds' = [cmds EXCEPT !.despawn_delayed = DespawnQueue(entities', 0)]
    /\ ran' = ran \cup {"despawn_delayed"}
    /\ UNCHANGED <<state, trigger, delta, pc, events, reader, gone, panicked,
                   start, rot>>

(* -------------------------------- fire -------------------------------- *)
\* buggy variant: one projectile for every interval the tick went through
FirePerInterval(t, d) ==
    LET n == (t.elapsed + d) \div t.duration
    IN  [trigger |-> TimerTick(t, d),
         queue |-> [i \in 1..n |-> SpawnCmd(AmmoBundle, 0)]]

\* fire: tick the trigger, return unless it is finished, spawn one ammo
Fire(t, d) ==
    LET ticked == TimerTick(t, d)
    IN  [trigger |-> ticked,
         queue |-> IF ~ticked.finished THEN <<>>
                   ELSE <<SpawnCmd(AmmoBundle, 0)>>]

\* fire asks for ResMut<Trigger>: without the resource the system panics
RunFire ==
    /\ pc = "Update"
    /\ "fire" \in UpdateSystems(state) \ ran
    /\ ~panicked
    /\ IF trigger = NoTimer
       THEN /\ panicked' = TRUE
            /\ UNCHANGED <<trigger, cmds>>
       ELSE /\ trigger' = Fire(trigger, delta).trigger
            /\ cmds' = [cmds EXCEPT !.fire = Fire(trigger, delta).queue]
            /\ UNCHANGED panicked
    /\ ran' = ran \cup {"fire"}
    /\ UNCHANGED <<state, delta, pc, entities, events, reader, gone, start,
                   rot>>

(* ------------------------------ collide ------------------------------- *)
\* collide: the loop over collision_event_reader.read(), which hands out
\* the events not yet read and moves the reader past them
RunCollide ==
    /\ pc = "Update"
    /\ "collide" \in UpdateSystems(state) \ ran
    /\ ~panicked
    /\ cmds' = [cmds EXCEPT
                  !.collide = CollideLoop(entities, events, reader)]
    /\ reader' = Len(events)
    /\ ran' = ran \cup {"collide"}
    /\ UNCHANGED <<state, trigger, delta, pc, entities, events, gone, panicked,
                   start, rot>>

(* ----------------------------- sync point ----------------------------- *)
\* the end of Update: every system has run once, and the queues are
\* applied one after the other
ApplyDeferred ==
    /\ pc = "Update"
    /\ ~panicked
    /\ ran = UpdateSystems(state)
    /\ entities' = ApplyCommands(
                     ApplyCommands(
                       ApplyCommands(entities, cmds.despawn_delayed),
                       cmds.fire),
                     cmds.collide)
    /\ gone' = (gone \/ \E i \in AliveIds(entities) :
                          /\ entities[i].layer = "Ammo"
                          /\ entities[i].colliderParent
                          /\ entities'[i] # entities[i])
    /\ cmds' = NoCommands
    /\ pc' = "SpawnScene"
    /\ start' = NoStart
    /\ UNCHANGED <<state, trigger, delta, ran, events, reader, panicked, rot>>

(* ----------------------------- SpawnScene ----------------------------- *)
\* the scene of one root is instantiated: the named child, its mesh child,
\* and the hook, which makes the named child a collider (Collidable::apply
\* reads the mesh of its first child).  The children start at the root's
\* transform; the physics step of the same frame places the collider
\* before any system reads it.
SpawnSceneOf(ents, root) ==
    LET name == HookName(ents[root].kind)
        gt == ents[root].gt
        n == Min(FreeIds(ents))
        m == Min(FreeIds(ents) \ {n})
        node == [Entity(name, root, "none", NoTimer, gt, VecZERO)
                    EXCEPT !.collider = TRUE, !.layer = HookLayer(name),
                           !.children = <<m>>]
        mesh == Entity("mesh", n, "none", NoTimer, gt, VecZERO)
    IN  [ents EXCEPT ![root].scene = "spawned", ![root].children = <<n>>,
                     ![n] = node, ![m] = mesh]

RECURSIVE SpawnScenes(_, _)
SpawnScenes(ents, roots) ==
    IF roots = {} THEN ents
    ELSE SpawnScenes(SpawnSceneOf(ents, Min(roots)), roots \ {Min(roots)})

\* SpawnScene: the scene spawner instantiates the scenes of the roots
\* spawned in this frame (their assets are loaded), and the hooks run
SpawnScene ==
    /\ pc = "SpawnScene"
    /\ entities' = SpawnScenes(entities, PendingRoots)
    /\ pc' = "PostUpdate"
    /\ UNCHANGED <<state, trigger, delta, ran, cmds, events, reader, gone,
                   panicked, start, rot>>

(* ------------------------------ physics ------------------------------- *)
\* the contacts a physics step reports
Contact(p1, p2) == [point1 |-> p1, point2 |-> p2]
Contacts ==
    {Contact(V(1, 0, 0), V(0, 1, 0)), Contact(V(3, 0, 0), V(0, 0, 2)),
     Contact(V(1, 2, 0), V(2, 0, 0))}

SeqsUpTo(S, n) == UNION {[1..k -> S] : k \in 0..n}

\* the batches of a physics step: at most n events, one for a pair of
\* colliders, in the order of the pairs
Batches(S, n) ==
    {b \in SeqsUpTo(S, n) :
        \A i, j \in DOMAIN b :
            i < j => \/ b[i].entity2 < b[j].entity2
                     \/ /\ b[i].entity2 = b[j].entity2
                        /\ b[i].entity1 < b[j].entity1}

Manifold(cs) == [contacts |-> cs]
\* the manifold lists of the events of a running frame
StepManifolds ==
    {<<Manifold(<<Contact(V(1, 0, 0), V(0, 1, 0)),
                  Contact(V(3, 0, 0), V(0, 0, 2))>>),
       Manifold(<<Contact(V(1, 2, 0), V(2, 0, 0))>>)>>}

\* the colliders of a layer that an event of this step can name: those
\* alive and known to the physics, and for a projectile also one that has
\* been despawned
CollidersOf(ents, layer, g) ==
    {i \in AliveIds(ents) :
        ents[i].collider /\ ents[i].colliderParent /\ ents[i].layer = layer}
    \cup (IF layer = "Ammo" /\ g THEN {Gone} ELSE {})

\* Collision(Contacts): the pairs Layer::config lets meet, a collider of
\* Layer::Object with one of Layer::Ammo
CollisionEvents(ents, g) ==
    {[entity1 |-> ab[1], entity2 |-> ab[2], during_previous_frame |-> f,
      manifolds |-> m] :
        ab \in CollidersOf(ents, "Object", g) \X CollidersOf(ents, "Ammo", g),
        f \in BOOLEAN, m \in StepManifolds}

\* the world after a physics step: every collider has its ColliderParent
\* and the projectiles are where the step moved them
PhysicsStep(ents) ==
    [i \in DOMAIN ents |->
        IF ents[i].alive /\ ents[i].collider
        THEN [ents[i] EXCEPT
                !.colliderParent = TRUE,
                !.gt = IF ents[i].layer = "Ammo" THEN AmmoSeenAt ELSE @]
        ELSE ents[i]]

\* The frame deltas the clock is stepped by: one second, half a trigger
\* interval and 2.5 trigger intervals (the timers are followed for any
\* delta, also one that spans several intervals).  time.delta() is zero in
\* the first frame only.
Deltas == {1, TriggerInterval \div 2, (5 * TriggerInterval) \div 2}

RECURSIVE SumOver(_, _)
SumOver(S, f) ==
    IF S = {} THEN 0 ELSE f[Min(S)] + SumOver(S \ {Min(S)}, f)

\* the entities alive at the end of a frame with delta d that starts from
\* ents with evs unread: those alive, less the subtrees despawn_delayed
\* removes, plus the rock or a projectile with their two scene children,
\* plus the markers
CountAfterFrame(ents, evs, d) ==
    LET expiring == {i \in AliveIds(ents) :
                       /\ HasDelayedDespawn(ents[i])
                       /\ TimerTick(ents[i].dd, d).finished}
        removed == [i \in expiring |-> Cardinality(Subtree(ents, i))]
    IN  Cardinality(AliveIds(ents)) - SumOver(expiring, removed)
        + (IF state = "Load" \/ trigger.elapsed + d >= trigger.duration
           THEN 3 ELSE 0)
        + 2 * Cardinality({i \in DOMAIN evs :
                             /\ ~evs[i].during_previous_frame
                             /\ GetMany(ents, evs[i])})

\* PostUpdate, where the physics step runs and writes the collision events
\* of the step, and then First of the next frame, where the clock advances
\* by the frame's delta and the event buffers are swapped: the events
\* written before this step are dropped, and the reader's count of read
\* events moves with them.  No system of the application runs in between.
\* A frame is only started if the world has the ids for what it spawns.
NextFrame(evs, d) ==
    /\ pc = "PostUpdate"
    /\ entities' = PhysicsStep(entities)
    /\ CountAfterFrame(entities', evs, d) <= Len(entities)
    /\ events' = evs
    /\ reader' = IF reader > Len(events) THEN reader - Len(events) ELSE 0
    /\ delta' = d
    /\ ran' = {}
    /\ pc' = "StateTransition"
    /\ UNCHANGED <<state, trigger, cmds, gone, panicked, start, rot>>

Next ==
    \/ \E loaded \in BOOLEAN : StateTransition(loaded)
    \/ RunDespawnDelayed
    \/ RunFire
    \/ RunCollide
    \/ ApplyDeferred
    \/ SpawnScene
    \/ \E evs \in Batches(CollisionEvents(PhysicsStep(entities), gone),
                         MaxEvents) :
         \E d \in Deltas : NextFrame(evs, d)

Spec == Init /\ [][Next]_vars

\* The runner calls the schedules of a frame one after the other, frame
\* after frame: the state transition, the scene spawner and the step to
\* the next frame are taken whenever they are due, and the Update schedule
\* runs each of its systems that is due and then its sync point, so that
\* it is always left again.
SpecLive ==
    /\ Spec
    /\ WF_vars(\E loaded \in BOOLEAN : StateTransition(loaded))
    /\ []<>(pc # "Update")
    /\ WF_vars(SpawnScene)
    /\ WF_vars(\E d \in Deltas : NextFrame(<<>>, d))

(* ------------------- frames without collisions ---------------------- *)
\* The program from its start in a world with MaxSlots entity ids, room
\* for the target and four projectiles with their scenes, when no
\* projectile meets the target: the physics step reports no collision.
InitFlight ==
    /\ state = "Load"
    /\ trigger = NoTimer
    /\ delta = 0
    /\ pc = "StateTransition"
    /\ ran = {}
    /\ cmds = NoCommands
    /\ entities = [i \in 1..MaxSlots |-> FreeSlot]
    /\ events = <<>>
    /\ reader = 0
    /\ gone = FALSE
    /\ panicked = FALSE
    /\ start = NoStart
    /\ rot = NoCall

NextFlight ==
    \/ \E loaded \in BOOLEAN : StateTransition(loaded)
    \/ RunDespawnDelayed
    \/ RunFire
    \/ RunCollide
    \/ ApplyDeferred
    \/ SpawnScene
    \/ \E d \in Deltas : NextFrame(<<>>, d)

SpecFlight == InitFlight /\ [][NextFlight]_vars

(* ----------------------- one collide, any batch ----------------------- *)
\* the contact lists of a manifold: distinct contacts, at most n
ContactLists(n) ==
    {cs \in SeqsUpTo(Contacts, n) :
        \A i, j \in DOMAIN cs : i # j => cs[i] # cs[j]}

\* setup_scene and fire as the frames have left them when a projectile is
\* one second old: the rock 1 with its collider 2, the projectile 4 with its
\* collider 5 at pose gt, and the meshes 3 and 6
CollideWorld(gt) ==
    LET root(e, child) == [e EXCEPT !.scene = "spawned", !.children = <<child>>]
        node(name, parent, child, g) ==
            [Entity(name, parent, "none", NoTimer, g, VecZERO)
                EXCEPT !.collider = TRUE, !.colliderParent = TRUE,
                       !.layer = HookLayer(name), !.children = <<child>>]
        ammo == [AmmoBundle EXCEPT
                   !.dd = TimerTick(After(AmmoLifetime), 1), !.ticked = 1]
    IN  [i \in 1..MaxEntities |->
            CASE i = 1 -> root(RockBundle, 2)
              [] i = 2 -> node("ball", 1, 3, RockGT)
              [] i = 3 -> Entity("mesh", 2, "none", NoTimer, RockGT, VecZERO)
              [] i = 4 -> root(ammo, 5)
              [] i = 5 -> node("collider", 4, 6, gt)
              [] i = 6 -> Entity("mesh", 5, "none", NoTimer, gt, VecZERO)
              [] OTHER -> FreeSlot]

\* Collision(Contacts) between a and b with manifold list m
CollisionEvent(a, b, f, m) ==
    [entity1 |-> a, entity2 |-> b, during_previous_frame |-> f, manifolds |-> m]

\* The batches collide is run on: up to MaxBatch events of the rock's
\* collider with the projectile's (or with a despawned one, when there has
\* been one), in either order of the two, for different pairs; and a single
\* event with any list of up to MaxManifolds manifolds of up to MaxContacts
\* contacts.
CollideBatches(g) ==
    LET others == {5} \cup (IF g THEN {Gone} ELSE {})
        pairs == {<<2, b>> : b \in others} \cup {<<b, 2>> : b \in others}
        evs == {CollisionEvent(ab[1], ab[2], f, m) :
                   ab \in pairs, f \in BOOLEAN, m \in StepManifolds}
        lists == SeqsUpTo({Manifold(cs) : cs \in ContactLists(MaxContacts)},
                          MaxManifolds)
    IN  {b \in SeqsUpTo(evs, MaxBatch) :
            \A i, j \in DOMAIN b :
                i # j => <<b[i].entity1, b[i].entity2>>
                           # <<b[j].entity1, b[j].entity2>>}
        \cup {<<CollisionEvent(5, 2, FALSE, m)>> : m \in lists}

\* A frame of Play in which despawn_delayed and fire have run and queued
\* nothing, and collide is about to run
InitCollide ==
    /\ state = "Play"
    /\ trigger = [SetupSceneTrigger EXCEPT !.elapsed = TriggerInterval - 1]
    /\ delta = 1
    /\ pc = "Update"
    /\ ran = {"despawn_delayed", "fire"}
    /\ cmds = NoCommands
    /\ \E gt \in AmmoTransforms : entities = CollideWorld(gt)
    /\ gone \in BOOLEAN
    /\ events \in CollideBatches(gone)
    /\ reader = 0
    /\ panicked = FALSE
    /\ start = [entities |-> [entities EXCEPT
                                ![4].dd = After(AmmoLifetime), ![4].ticked = 0],
                trigger |-> [trigger EXCEPT !.elapsed = @ - delta]]
    /\ rot = NoCall

NextCollide ==
    \/ RunCollide
    \/ ApplyDeferred

SpecCollide == InitCollide /\ [][NextCollide]_vars

(* ------------------ rotation_between on any two vectors --------------- *)
InitRotation ==
    /\ state = "Load"
    /\ trigger = NoTimer
    /\ delta = 0
    /\ pc = "StateTransition"
    /\ ran = {}
    /\ cmds = NoCommands
    /\ entities = [i \in 1..MaxEntities |-> FreeSlot]
    /\ events = <<>>
    /\ reader = 0
    /\ gone = FALSE
    /\ panicked = FALSE
    /\ start = NoStart
    /\ \E from \in RotationVectors, to \in RotationVectors :
          rot = Call(from, to)

\* the call returns
CallRotationBetween ==
    /\ ~rot.called
    /\ rot' = [rot EXCEPT !.called = TRUE,
                          !.result = RotationBetween(rot.from, rot.to)]
    /\ UNCHANGED <<state, trigger, delta, pc, ran, cmds, entities, events,
                   reader, gone, panicked, start>>

NextRotation == CallRotationBetween

SpecRotation == InitRotation /\ [][NextRotation]_vars

(* ============================== claims ================================ *)
\* a step in which system sys of Update runs
Runs(sys) == sys \in ran' /\ sys \notin ran
\* the sync point ending Update, and what it removes from the world
SyncStep == pc = "Update" /\ pc' = "SpawnScene"
Removed(i) == SyncStep /\ entities[i].alive /\ entities'[i] # entities[i]

(* ------------------------------- C1 ---------------------------------- *)
\* C1, as stated: while the state is Load none of the three systems
\* despawn_delayed, fire and collide runs.
C1_NoSystemInLoad == [][state = "Load" => ~\E sys \in UpdateSystems("Play") : Runs(sys)]_vars

\* C1, amended: while the state is Load, for any number of frames, fire and
\* collide never run; despawn_delayed does run, but it finds no entity
\* with a DelayedDespawn: it ticks no timer and queues no removal.
C1_FireCollideGated ==
    [][state = "Load" =>
         /\ ~Runs("fire") /\ ~Runs("collide")
         /\ Runs("despawn_delayed") =>
               /\ \A i \in DOMAIN entities : ~HasDelayedDespawn(entities[i])
               /\ entities' = entities
               /\ cmds' = NoCommands /\ trigger' = NoTimer]_vars

\* a later frame (its delta is not zero) of Load in which despawn_delayed
\* has run
C1_Witness ==
    state = "Load" /\ delta > 0 /\ pc = "Update" /\ ran = {"despawn_delayed"}

(* ------------------------------- C2 ---------------------------------- *)
\* The world holds whole trees only, and a removal is issued at most
\* once for an entity, in the frame whose sync point applies it.
C2_WholeTrees ==
    \A i \in AliveIds(entities) :
        LET e == entities[i]
        IN  /\ e.removals <= 1
            /\ e.removals = 1 => pc = "Update" /\ "despawn_delayed" \in ran
            /\ e.parent # 0 => /\ entities[e.parent].alive
                               /\ i \in Range(entities[e.parent].children)
            /\ \A c \in Range(e.children) :
                   entities[c].alive /\ entities[c].parent = i

\* C2: an entity with a DelayedDespawn is removed at most once: in the
\* frame in which its timer is finished the entity and its whole subtree
\* leave the world in one step, no entity is ever in the world without its
\* parent or without a child, and no later frame issues a second removal.
C2_RemovedOnceWhole ==
    /\ []C2_WholeTrees
    /\ [][SyncStep =>
            \A i \in AliveIds(entities) :
                HasDelayedDespawn(entities[i]) /\ entities[i].dd.finished
                    => \A j \in Subtree(entities, i) : Removed(j)]_vars

\* a projectile with its scene below it, its removal issued
C2_Witness ==
    \E i \in AliveIds(entities) :
        /\ entities[i].kind = "ammo"
        /\ entities[i].removals = 1
        /\ Cardinality(Subtree(entities, i)) = 3

(* ------------------------------- C3 ---------------------------------- *)
\* an entity whose ticked deltas have reached its lifetime is in the world
\* only until the sync point of that frame, with its removal queued
C3_RemovalQueued ==
    \A i \in AliveIds(entities) :
        HasDelayedDespawn(entities[i])
        /\ entities[i].ticked >= entities[i].dd.duration
            => /\ pc = "Update"
               /\ DespawnRecursiveCmd(i) \in Range(cmds.despawn_delayed)

\* C3: an entity with DelayedDespawn::after(T) is never removed while the
\* sum of the deltas ticked into its timer is below T, and it is removed
\* in the first frame in which the sum has reached T.
C3_RemovedWhenDue ==
    /\ []C3_RemovalQueued
    /\ [][\A i \in DOMAIN entities :
            /\ Removed(i) /\ HasDelayedDespawn(entities[i])
                 => entities[i].ticked >= entities[i].dd.duration
            /\ SyncStep /\ HasDelayedDespawn(entities[i])
               /\ entities[i].ticked >= entities[i].dd.duration
                 => Removed(i)]_vars

\* a projectile that was left alone at T - 1 and is removed in the next
\* frame, whose delta of 2 takes the sum to T + 1
C3_Witness ==
    \E i \in AliveIds(entities) :
        /\ entities[i].dd = [After(AmmoLifetime) EXCEPT
                               !.elapsed = AmmoLifetime, !.finished = TRUE]
        /\ entities[i].ticked = AmmoLifetime + 1
        /\ delta = 2
        /\ DespawnRecursiveCmd(i) \in Range(cmds.despawn_delayed)

(* ------------------------------- C4 ---------------------------------- *)
\* C4: every run of fire queues at most one spawn, whatever the delta: one
\* projectile with velocity (10, 10, 0) and a DelayedDespawn of 8 exactly
\* when the tick takes the trigger's elapsed time to the interval or past
\* it, by however many intervals, and nothing otherwise; so no frame adds
\* more than one projectile to the world.
C4_OneProjectilePerRun ==
    [][/\ Runs("fire") /\ ~panicked' =>
            /\ Len(cmds'.fire) <= 1
            /\ Len(cmds'.fire) = 1 <=> trigger.elapsed + delta >= TriggerInterval
            /\ \A c \in Range(cmds'.fire) :
                  /\ c.op = "spawn"
                  /\ c.bundle.kind = "ammo"
                  /\ c.bundle.velocity = V(10, 10, 0)
                  /\ c.bundle.dd = [mode |-> "Once", duration |-> 8,
                                    elapsed |-> 0, finished |-> FALSE]
       /\ SyncStep =>
            Cardinality({i \in DOMAIN entities :
                           /\ entities'[i].alive
                           /\ entities'[i].kind = "ammo"
                           /\ entities'[i] # entities[i]}) <= 1]_vars

\* fire has run on a delta of 2.5 intervals, which took the trigger through
\* three of them, and has queued one projectile
C4_Witness ==
    /\ "fire" \in ran
    /\ delta = (5 * TriggerInterval) \div 2
    /\ trigger.elapsed = 1
    /\ Len(cmds.fire) = 1

(* ------------------------------- C5 ---------------------------------- *)
\* C5, as stated: on a tick that takes elapsed to the interval the trigger
\* fires and elapsed is reduced by one interval; on any other tick elapsed
\* grows by the delta.
C5_MinusOneInterval ==
    [][Runs("fire") /\ ~panicked' =>
         IF trigger.elapsed + delta >= TriggerInterval
         THEN /\ trigger'.finished
              /\ trigger'.elapsed = trigger.elapsed + delta - TriggerInterval
         ELSE /\ ~trigger'.finished
              /\ trigger'.elapsed = trigger.elapsed + delta]_vars

\* C5, amended: the trigger carries the overshoot forward and is not reset
\* to zero: on a tick that takes elapsed to the interval or past it the
\* trigger fires once, and elapsed keeps what is left after every whole
\* interval in it is taken off (one interval only when the tick went
\* through one); on any other tick it does not fire and elapsed grows by
\* exactly the delta.
C5_CarriesRemainder ==
    [][Runs("fire") /\ ~panicked' =>
         LET sum == trigger.elapsed + delta
         IN  IF sum >= TriggerInterval
             THEN /\ trigger'.finished /\ Len(cmds'.fire) = 1
                  /\ trigger'.elapsed \in 0..(TriggerInterval - 1)
                  /\ \E k \in 1..sum :
                        sum = k * TriggerInterval + trigger'.elapsed
             ELSE /\ ~trigger'.finished /\ cmds'.fire = <<>>
                  /\ trigger'.elapsed = sum]_vars

\* an advance by 2.5 intervals from zero has fired once and left half an
\* interval
C5_Witness ==
    /\ "fire" \in ran
    /\ delta = (5 * TriggerInterval) \div 2
    /\ trigger.finished
    /\ 2 * trigger.elapsed = TriggerInterval
    /\ Len(cmds.fire) = 1

(* ------------------------------- C6 ---------------------------------- *)
\* the markers a sync point adds to the world
NewMarkers ==
    {i \in DOMAIN entities :
        /\ entities'[i].alive
        /\ entities'[i].kind = "marker"
        /\ entities'[i] # entities[i]}

\* the spawn requests collide has queued for event i
RequestsFor(q, i) == {k \in DOMAIN q : q[k].ev = i}

\* C6: an event whose during_previous_frame is true never makes collide
\* spawn a marker: no spawn request answers it, and a frame whose events
\* are all of that kind adds no marker to the world.
C6_PreviousFrameSkipped ==
    [][/\ Runs("collide") =>
            \A i \in DOMAIN events :
                events[i].during_previous_frame
                    => RequestsFor(cmds'.collide, i) = {}
       /\ SyncStep /\ (\A i \in DOMAIN events : events[i].during_previous_frame)
            => NewMarkers = {}]_vars

\* collide has run on an event of the previous frame whose two colliders
\* are both in the world, and has queued nothing
C6_Witness ==
    /\ "collide" \in ran
    /\ pc = "Update"
    /\ \E i \in DOMAIN events :
          events[i].during_previous_frame /\ GetMany(entities, events[i])
    /\ cmds.collide = <<>>

(* ------------------------------- C7 ---------------------------------- *)
\* the query of collide resolves both entities of the event
Resolves(ev) ==
    \A a \in {ev.entity1, ev.entity2} :
        /\ a \in DOMAIN entities
        /\ entities[a].alive /\ entities[a].collider /\ entities[a].colliderParent

\* C7: a fresh event one of whose entities does not resolve gets no
\* marker; collide does not abort on it, and every other event of the
\* batch, before it or after it, is handled as if it were not there.
C7_UnresolvedSkipped ==
    /\ []~panicked
    /\ [][Runs("collide") =>
            /\ reader' = Len(events)
            /\ \A i \in DOMAIN events :
                  Cardinality(RequestsFor(cmds'.collide, i)) =
                     IF ~events[i].during_previous_frame /\ Resolves(events[i])
                     THEN 2 ELSE 0]_vars

\* collide has met a fresh event that names a despawned collider, has
\* queued nothing for it, and has queued the two markers of the event
\* that follows it
C7_Witness ==
    /\ "collide" \in ran
    /\ Len(events) = 2
    /\ ~events[1].during_previous_frame /\ ~Resolves(events[1])
    /\ ~events[2].during_previous_frame /\ Resolves(events[2])
    /\ Len(cmds.collide) = 2
    /\ \A k \in DOMAIN cmds.collide : cmds.collide[k].ev = 2

(* ------------------------------- C8 ---------------------------------- *)
\* the fresh events of the frame whose two entities resolve
FreshResolved ==
    {i \in DOMAIN events :
        ~events[i].during_previous_frame /\ Resolves(events[i])}

\* C8: collide reads every event once (all the events it finds are unread
\* and it leaves them read); each fresh event whose two entities resolve
\* gets exactly two spawn requests, markers with a DelayedDespawn of 1; and
\* the markers a frame adds to the world are twice its fresh resolvable
\* events.
C8_TwoMarkersPerEvent ==
    [][/\ Runs("collide") =>
            /\ reader = 0 /\ reader' = Len(events)
            /\ Len(cmds'.collide) = 2 * Cardinality(FreshResolved)
            /\ \A i \in FreshResolved :
                  /\ Cardinality(RequestsFor(cmds'.collide, i)) = 2
                  /\ \A k \in RequestsFor(cmds'.collide, i) :
                        /\ cmds'.collide[k].op = "spawn"
                        /\ cmds'.collide[k].bundle.kind = "marker"
                        /\ cmds'.collide[k].bundle.dd =
                              [mode |-> "Once", duration |-> 1,
                               elapsed |-> 0, finished |-> FALSE]
       /\ SyncStep =>
            Cardinality(NewMarkers) = 2 * Cardinality(FreshResolved)]_vars

\* the sync point of a frame with one fresh resolvable event has put its
\* two markers into the world
C8_Witness ==
    /\ pc = "SpawnScene"
    /\ Cardinality(FreshResolved) = 1
    /\ Cardinality({i \in AliveIds(entities) :
                      /\ entities[i].kind = "marker"
                      /\ entities[i].dd = After(1)}) = 2

(* ------------------------------- C9 ---------------------------------- *)
RECURSIVE ProdOver(_, _)
ProdOver(S, f) ==
    IF S = {} THEN 1 ELSE f[Min(S)] * ProdOver(S \ {Min(S)}, f)

\* The mean of the manifold means of one coordinate, as a fraction of
\* integers num / den: with n[k] contacts in manifold k and D the product
\* of the n[k], the mean over the M manifolds of (sum of manifold k) / n[k]
\* is (SUM_k sum[k] * D / n[k]) / (D * M).  body is 1 or 2, c is "x", "y"
\* or "z"; the contact points have integer coordinates.
MeanOfMeans(manifolds, body, c) ==
    LET M == Len(manifolds)
        n == [k \in 1..M |-> Len(manifolds[k].contacts)]
        D == ProdOver(1..M, n)
        point(k, j) == IF body = 1 THEN manifolds[k].contacts[j].point1
                       ELSE manifolds[k].contacts[j].point2
        sum == [k \in 1..M |->
                  SumOver(1..n[k], [j \in 1..n[k] |-> point(k, j)[c][1]])]
    IN  [num |-> SumOver(1..M, [k \in 1..M |-> sum[k] * (D \div n[k])]),
         den |-> D * M]

\* the mean point of a body turned by a quarter turn q about Z: the
\* numerators of its coordinates over the common denominator
Turned(q, manifolds, body) ==
    LET x == MeanOfMeans(manifolds, body, "x").num
        y == MeanOfMeans(manifolds, body, "y").num
        z == MeanOfMeans(manifolds, body, "z").num
    IN  CASE q = "id"   -> [x |-> x, y |-> y, z |-> z]
          [] q = "z90"  -> [x |-> -y, y |-> x, z |-> z]
          [] q = "z180" -> [x |-> -x, y |-> -y, z |-> z]
          [] q = "z270" -> [x |-> y, y |-> -x, z |-> z]

\* w is translation + rotation * (mean of the manifold means) for the body
\* with GlobalTransform gt, whatever the scale of gt
IsImpactPoint(w, gt, manifolds, body) ==
    /\ ~w.nan
    /\ \A c \in {"x", "y", "z"} :
          LET den == MeanOfMeans(manifolds, body, c).den
              t == gt.translation[c][1]
          IN  w[c][1] * den
                 = (t * den + Turned(gt.rotation, manifolds, body)[c]) * w[c][2]

\* the manifolds {(1,0,0), (3,0,0)} and {(1,0,0), (1,2,0)} of the first body
ExampleManifolds ==
    <<Manifold(<<Contact(V(1, 0, 0), V(0, 1, 0)), Contact(V(3, 0, 0), V(0, 0, 2))>>),
      Manifold(<<Contact(V(1, 0, 0), V(0, 1, 0)), Contact(V(1, 2, 0), V(2, 0, 0))>>)>>

\* C9: for a fresh event with at least one manifold and at least one
\* contact in each, the marker of each body is put at the body's
\* translation plus its rotation applied to the mean over the manifolds of
\* each manifold's mean contact point, every manifold counting the same
\* whatever its number of contacts, and the scale left out; the example
\* manifolds on a body at (10, 0, 0) with no rotation give (11.5, 0.5, 0).
C9_MeanOfManifoldMeans ==
    [][Runs("collide") =>
         \A i \in DOMAIN events :
            LET ev == events[i]
                q == cmds'.collide
                r == RequestsFor(q, i)
            IN  /\ ~ev.during_previous_frame
                /\ Resolves(ev)
                /\ ev.manifolds # <<>>
                /\ \A k \in DOMAIN ev.manifolds : ev.manifolds[k].contacts # <<>>
                => /\ Cardinality(r) = 2
                   /\ IsImpactPoint(q[Min(r)].bundle.gt.translation,
                                    entities[ev.entity1].gt, ev.manifolds, 1)
                   /\ IsImpactPoint(q[Max(r)].bundle.gt.translation,
                                    entities[ev.entity2].gt, ev.manifolds, 2)
                   /\ /\ ev.manifolds = ExampleManifolds
                      /\ entities[ev.entity1].gt.translation = V(10, 0, 0)
                      /\ entities[ev.entity1].gt.rotation = "id"
                      => q[Min(r)].bundle.gt.translation =
                            [nan |-> FALSE, x |-> <<23, 2>>, y |-> <<1, 2>>,
                             z |-> <<0, 1>>]]_vars

\* collide has run on the example: the projectile's collider, scale 2, at
\* (10, 0, 0) with no rotation, and the first marker is asked for at
\* (11.5, 0.5, 0)
C9_Witness ==
    /\ "collide" \in ran
    /\ events = <<CollisionEvent(5, 2, FALSE, ExampleManifolds)>>
    /\ entities[5].gt = Xf(V(10, 0, 0), "id", 2)
    /\ Len(cmds.collide) = 2
    /\ cmds.collide[1].bundle.gt.translation =
          [nan |-> FALSE, x |-> <<23, 2>>, y |-> <<1, 2>>, z |-> <<0, 1>>]

(* ------------------------------- C10 --------------------------------- *)
\* C10: the state starts as Load, the only change it ever makes is the one
\* from Load to Play, made in StateTransition, and once it is Play it is
\* Play in every later frame.
C10_LoadThenPlay ==
    /\ state = "Load"
    /\ [][/\ state = "Play" => state' = "Play"
          /\ state' # state =>
                state = "Load" /\ state' = "Play" /\ pc = "StateTransition"]_vars

\* Play, many frames after the change: a projectile has lived its 8 seconds
C10_Witness ==
    /\ state = "Play"
    /\ pc = "StateTransition"
    /\ gone

(* ------------------------------- C11 --------------------------------- *)
\* the magnitude of coordinate c of v is below 0.001
AxisBelow(v, c) == Abs(v[c][1]) * 1000 < v[c][2]
AnyAxisBelow(v) == \E c \in {"x", "y", "z"} : AxisBelow(v, c)
AllAxesBelow(v) == \A c \in {"x", "y", "z"} : AxisBelow(v, c)

\* a and b point the same way: their cross product is zero and their dot
\* product is positive
SameDirection(a, b) ==
    LET int(v) == LET l == Lcm(v.x[2], Lcm(v.y[2], v.z[2]))
                  IN  [c \in {"x", "y", "z"} |-> v[c][1] * (l \div v[c][2])]
        p == int(a)
        q == int(b)
    IN  /\ p.y * q.z = p.z * q.y
        /\ p.z * q.x = p.x * q.z
        /\ p.x * q.y = p.y * q.x
        /\ p.x * q.x + p.y * q.y + p.z * q.z > 0

C12_CarriesDelayedDespawn ==
    \A i \in AliveIds(entities) :
        entities[i].kind \in {"ammo", "marker"}
            => HasDelayedDespawn(entities[i])

\* C12: every projectile and every marker carries a DelayedDespawn from
\* the moment it is spawned, and while frames keep occurring with a
\* positive delta each of them is eventually despawned: an id that holds
\* an entity with a DelayedDespawn comes to a sync point after which it
\* holds no such entity, or a newly spawned one whose timer has not been
\* ticked.
C12_EventuallyDespawned ==
    /\ []C12_CarriesDelayedDespawn
    /\ \A i \in 1..MaxEntities :
          HasDelayedDespawn(entities[i])
              ~> /\ pc = "SpawnScene"
                 /\ ~HasDelayedDespawn(entities[i]) \/ entities[i].ticked = 0

\* the sync point of a frame that removed a projectile and every other
\* entity with a running timer, and spawned a new projectile
C12_Witness ==
    /\ pc = "SpawnScene"
    /\ gone
    /\ \E i \in AliveIds(entities) : entities[i].kind = "ammo"
    /\ \A i \in AliveIds(entities) :
          HasDelayedDespawn(entities[i]) => entities[i].ticked = 0

(* ------------------------------- C13 --------------------------------- *)
Rocks == {i \in AliveIds(entities) : entities[i].kind = "rock"}

\* in Load there is neither target nor Trigger; in Play there is exactly
\* one target, and the Trigger is the repeating timer of 4 seconds
C13_OneRockOneTrigger ==
    /\ state = "Load" => Rocks = {} /\ trigger = NoTimer
    /\ state = "Play" =>
          /\ Cardinality(Rocks) = 1
          /\ trigger.mode = "Repeating"
          /\ trigger.duration = TriggerInterval

\* C13: setup runs exactly once, in the step that enters Play: it spawns
\* the one target and creates the Trigger; neither exists in Load, and
\* afterwards the target is never spawned again or removed and the Trigger
\* is never created again or reset: it changes only by the tick of fire.
C13_SetupOnce ==
    /\ []C13_OneRockOneTrigger
    /\ [][/\ Rocks' # Rocks \/ (trigger = NoTimer /\ trigger' # NoTimer)
             => /\ state = "Load" /\ state' = "Play"
                /\ trigger' = SetupSceneTrigger
          /\ trigger # NoTimer /\ trigger' # trigger
             => /\ Runs("fire")
                /\ trigger' = TimerTick(trigger, delta)]_vars

\* Play, frames after setup: the Trigger has fired and run on, and a
\* projectile has come and gone, beside the one target
C13_Witness ==
    /\ state = "Play"
    /\ pc = "PostUpdate"
    /\ gone
    /\ Cardinality(Rocks) = 1
    /\ trigger.elapsed > 0

(* ------------------------------- C14 --------------------------------- *)
VNeg(v) == [v EXCEPT !.x = RNeg(@), !.y = RNeg(@), !.z = RNeg(@)]

\* to is exactly opposite to from: both are non-zero for rotation_between
\* and the dot product of their unit vectors is -1
Opposite(from, to) ==
    /\ ~AllAxesBelow(from)
    /\ ~AllAxesBelow(to)
    /\ SameDirection(from, VNeg(to))

\* the result is a rotation by 180 degrees about an axis perpendicular to
\* from, and it takes from to -from, the direction of to
IsHalfTurnOnto(q, from, to) ==
    /\ ~q.nan
    /\ q.cos = CosMinusOne
    /\ q.axis = Normalize(Cross(V(1, 0, 0), Normalize(from)))
    /\ IntDot(q.axis, Normalize(from)) = 0
    /\ HalfTurn(q.axis, from) = VNeg(from)
    /\ SameDirection(HalfTurn(q.axis, from), to)

\* from lies along the X axis
AlongX(v) == v.y[1] = 0 /\ v.z[1] = 0

\* C14, as stated: for every non-zero from and exactly opposite to,
\* rotation_between returns a rotation of 180 degrees about the axis
\* normalize(X x normalize(from)), which is perpendicular to from, and the
\* result applied to from yields to.
C14_OppositeHalfTurn ==
    rot.called /\ Opposite(rot.from, rot.to)
        => IsHalfTurnOnto(rot.result, rot.from, rot.to)

\* what the code does: off the X axis the half turn is as stated; for a
\* from along the X axis the cross product with X is the zero vector, its
\* normalization is NaN and so is every component of the result
C14_HalfTurnOffXAxis ==
    rot.called /\ Opposite(rot.from, rot.to) =>
        IF AlongX(rot.from)
        THEN rot.result.nan
        ELSE IsHalfTurnOnto(rot.result, rot.from, rot.to)

\* the call with from = (1, 0, 0) and to = (-1, 0, 0) has returned a
\* quaternion of NaNs
C14_Witness ==
    /\ rot.called
    /\ rot.from = V(1, 0, 0)
    /\ rot.to = V(-1, 0, 0)
    /\ rot.result.nan

\* a call off the X axis has returned the half turn: from = (0, 1, 0),
\* to = (0, -1, 0), axis (0, 0, 1)
C14_WitnessOffXAxis ==
    /\ rot.called
    /\ rot.from = V(0, 1, 0)
    /\ rot.to = V(0, -1, 0)
    /\ rot.result = QuatFromAxisAngle(V(0, 0, 1), CosMinusOne)

(* ------------------------------- C15 --------------------------------- *)
Systems == {"despawn_delayed", "fire", "collide"}

\* C15, as stated: the systems run in a fixed order, and no frame runs
\* fire or collide before despawn_delayed.
C15_SweepBeforeFireCollide ==
    [][Runs("fire") \/ Runs("collide") => "despawn_delayed" \in ran]_vars

\* the schedules of a frame follow one another in a fixed order: the
\* clock advances, then the state check, then Update and its sync point
FrameOrder ==
    pc' # pc =>
        <<pc, pc'>> \in {<<"StateTransition", "Update">>,
                         <<"Update", "SpawnScene">>,
                         <<"SpawnScene", "PostUpdate">>,
                         <<"PostUpdate", "StateTransition">>}

\* C15, amended: in every frame the clock advances and the state is
\* checked before any system runs; then despawn_delayed runs exactly once,
\* and fire and collide run exactly once each if the state is Play and
\* not at all if it is Load; all three have run when the commands are
\* applied.  The order of the three among themselves is not fixed.
C15_OncePerFrameAfterStateCheck ==
    [][/\ FrameOrder
       /\ delta' # delta \/ (ran # {} /\ ran' = {}) => pc = "PostUpdate"
       /\ state' # state => pc = "StateTransition"
       /\ \A sys \in Systems :
             Runs(sys) => /\ pc = "Update" /\ pc' = "Update"
                          /\ ran' = ran \cup {sys}
                          /\ sys = "despawn_delayed" \/ state = "Play"
       /\ ran' # ran => ran' = {} \/ \E sys \in Systems : Runs(sys)
       /\ trigger' # trigger /\ pc = "Update" => Runs("fire")
       /\ reader' # reader /\ pc = "Update" => Runs("collide")
       /\ entities' # entities /\ pc = "Update" /\ ~SyncStep
             => Runs("despawn_delayed")
       /\ SyncStep => ran = IF state = "Play" THEN Systems
                                              ELSE {"despawn_delayed"}]_vars

\* a frame of Play in which fire has fired and collide has run, and
\* despawn_delayed has not run yet
C15_Witness ==
    /\ pc = "Update"
    /\ state = "Play"
    /\ ran = {"fire", "collide"}
    /\ cmds.fire # <<>>

(* ------------------------------- C16 --------------------------------- *)
\* C16: whenever fire runs, the Trigger resource exists: the insertion
\* queued by setup_scene on entering Play is applied before the first run
\* of fire, so fire never runs without a Trigger and never aborts for the
\* lack of it.
C16_TriggerExistsWhenFireRuns ==
    /\ []~panicked
    /\ [][Runs("fire") =>
            /\ trigger # NoTimer
            /\ trigger.mode = "Repeating"
            /\ trigger' = TimerTick(trigger, delta)]_vars

\* the frame that entered Play: the target of setup_scene is in the world
\* with its scene not yet spawned, and fire has run on the new Trigger
C16_Witness ==
    /\ state = "Play"
    /\ pc = "Update"
    /\ "fire" \in ran
    /\ \E i \in AliveIds(entities) :
          entities[i].kind = "rock" /\ entities[i].scene = "pending"
    /\ trigger = TimerTick(SetupSceneTrigger, delta)

(* ------------------------------- C17 --------------------------------- *)
\* a count collide divides by is zero: the event has no manifolds, or one
\* of its manifolds has no contacts
ZeroCount(ev) ==
    \/ ev.manifolds = <<>>
    \/ \E k \in DOMAIN ev.manifolds : ev.manifolds[k].contacts = <<>>

\* the position of a marker collide has asked for is undefined
UndefinedMarker(q) ==
    \E k \in DOMAIN q : q[k].bundle.gt.translation.nan

\* C17, as stated: collide never divides by a zero count, so every marker
\* it spawns has a well-defined position; an event with no manifolds, or
\* a manifold with no contacts, does not yield a marker at an undefined
\* position.
C17_NoUndefinedMarker ==
    /\ ~UndefinedMarker(cmds.collide)
    /\ \A i \in AliveIds(entities) :
          entities[i].kind = "marker" => ~entities[i].gt.translation.nan

\* what the code does: the two markers of a fresh event whose entities
\* resolve are asked for whatever the counts are, and their positions are
\* undefined exactly when one of the counts is zero
C17_UndefinedIffZeroCount ==
    pc = "Update" /\ "collide" \in ran =>
        \A i \in FreshResolved :
            /\ Cardinality(RequestsFor(cmds.collide, i)) = 2
            /\ \A k \in RequestsFor(cmds.collide, i) :
                  cmds.collide[k].bundle.gt.translation.nan
                      <=> ZeroCount(events[i])

\* collide has answered a fresh event with no manifolds at all, whose two
\* entities resolve, by two markers at an undefined position
C17_Witness ==
    /\ pc = "Update"
    /\ "collide" \in ran
    /\ Len(events) = 1
    /\ events[1].manifolds = <<>>
    /\ 1 \in FreshResolved
    /\ Len(cmds.collide) = 2
    /\ UndefinedMarker(cmds.collide)

(* ------------------------------- C18 --------------------------------- *)
Projectiles == {i \in AliveIds(entities) : entities[i].kind = "ammo"}

\* C18: with the trigger interval 4 and the projectile lifetime 8 driven
\* by the same deltas, at most 3 projectiles exist at the end of every
\* frame, after the deferred spawns and despawns are applied, for any
\* sequence of positive frame deltas (and at no other moment are there
\* more).
C18_AtMostThreeProjectiles ==
    Cardinality(Projectiles) <= (AmmoLifetime \div TriggerInterval) + 1

\* the end of a frame with three projectiles, in a world with room for a
\* fourth
C18_Witness ==
    /\ pc = "PostUpdate"
    /\ Cardinality(Projectiles) = 3
    /\ Cardinality(FreeIds(entities)) >= 3

(* ------------------------------- C19 --------------------------------- *)
\* what each system leaves behind, as a function of the world and the
\* Trigger at the start of Update alone
SweptFromStart ==
    [i \in DOMAIN start.entities |-> TickDelayed(start.entities[i], delta)]
QueueFromStart(sys) ==
    CASE sys = "despawn_delayed" -> DespawnQueue(SweptFromStart, 0)
      [] sys = "fire" -> Fire(start.trigger, delta).queue
      [] sys = "collide" -> CollideLoop(start.entities, events, 0)

\* in Update of a frame of Play, whichever of the three systems have run
\* and in whatever order, each has left what it would have left had it
\* run first: the sweep the ticked timers and its despawn requests, fire
\* the ticked Trigger and its spawn request, collide its marker requests,
\* computed on the transforms of all the entities the frame started with
C19_EachSystemFromStart ==
    pc = "Update" /\ state = "Play" /\ ~panicked =>
        /\ entities = IF "despawn_delayed" \in ran THEN SweptFromStart
                                                    ELSE start.entities
        /\ trigger = IF "fire" \in ran THEN Fire(start.trigger, delta).trigger
                                        ELSE start.trigger
        /\ \A sys \in Systems :
              cmds[sys] = IF sys \in ran THEN QueueFromStart(sys) ELSE <<>>

\* C19: within a frame of Play the resulting world (entities spawned and
\* despawned, elapsed time of the Trigger, despawn timers) is the same for
\* every execution order of despawn_delayed, fire and collide, because
\* their spawns and despawns are deferred until all three have run;
\* collide still sees the transform of an entity that despawn_delayed
\* marks for removal in the same frame.
C19_OrderIndependent ==
    /\ []C19_EachSystemFromStart
    /\ [][SyncStep /\ state = "Play" =>
            /\ ran = Systems
            /\ trigger' = Fire(start.trigger, delta).trigger
            /\ entities' = ApplyCommands(
                             ApplyCommands(
                               ApplyCommands(SweptFromStart,
                                             QueueFromStart("despawn_delayed")),
                               QueueFromStart("fire")),
                             QueueFromStart("collide"))]_vars

\* the sweep has queued the removal of a projectile, and collide has run
\* in the same frame and asked for the two markers of a fresh event that
\* names the collider of that projectile
C19_Witness ==
    /\ pc = "Update"
    /\ state = "Play"
    /\ {"despawn_delayed", "collide"} \subseteq ran
    /\ \E i \in AliveIds(entities) :
          /\ entities[i].kind = "ammo"
          /\ DespawnRecursiveCmd(i) \in Range(cmds.despawn_delayed)
          /\ \E k \in DOMAIN events :
                /\ ~events[k].during_previous_frame
                /\ events[k].entity2 \in Subtree(entities, i)
                /\ Cardinality(RequestsFor(cmds.collide, k)) = 2

=============================================================================
